---- MODULE Spec2Model ----
(***************************************************************************)
(* Model of src/app.py: the POST /upload endpoint of the medical-report    *)
(* extraction service (Flask), with the file dispatcher, the PDF           *)
(* rasterizer wrapper and the Gemini call-and-parse function.              *)
(*                                                                         *)
(* A worker handles one request.  The handler is cut at its blocking I/O   *)
(* operations (file.save, reading the file back, one model call per page), *)
(* which is where another worker's steps can interleave.                   *)
(*                                                                         *)
(* Text is modelled as sequences of one-character strings (filenames,      *)
(* paths) or of lexical tokens (the model's reply); JSON values are tagged *)
(* records.                                                                *)
(***************************************************************************)
EXTENDS Integers, Sequences, FiniteSets, TLC

\* Largest number of pages the rasterizer yields for one PDF.
MaxPages == 3
\* Largest number of pages of a PDF in the concurrent specification.
ConcPages == 1
\* Number of workers handling requests concurrently.
NumWorkers == 2

Workers == 1..NumWorkers

----------------------------------------------------------------------------
(* JSON values, as json.loads builds them *)

JNull == [tag |-> "null"]
JNum(n) == [tag |-> "number", n |-> n]
JStr(s) == [tag |-> "string", s |-> s]
JArr(items) == [tag |-> "array", items |-> items]
JObj(fields) == [tag |-> "object", fields |-> fields]

EmptyDict == JObj(<<>>)

\* Python truthiness: `not v` is True for these values.
Falsy(v) ==
    CASE v.tag = "null" -> TRUE
      [] v.tag = "number" -> v.n = 0
      [] v.tag = "string" -> v.s = ""
      [] v.tag = "array" -> v.items = <<>>
      [] v.tag = "object" -> DOMAIN v.fields = {}

\* Outcome of a Python expression: a value, or a raised exception.
NoExc == [type |-> "", msg |-> ""]
Ok(v) == [ok |-> TRUE, val |-> v, exc |-> NoExc]
Raise(type, msg) == [ok |-> FALSE, val |-> JNull, exc |-> [type |-> type, msg |-> msg]]

\* v[k] for a str key k.
GetItem(v, k) ==
    CASE v.tag = "object" ->
            IF k \in DOMAIN v.fields
            THEN Ok(v.fields[k])
            ELSE Raise("KeyError", "'" \o k \o "'")
      [] v.tag = "array" ->
            Raise("TypeError", "list indices must be integers or slices, not str")
      [] v.tag = "string" ->
            Raise("TypeError", "string indices must be integers, not 'str'")
      [] v.tag = "number" ->
            Raise("TypeError", "'int' object is not subscriptable")
      [] v.tag = "null" ->
            Raise("TypeError", "'NoneType' object is not subscriptable")

\* dict.update on first-wins semantics: what a setdefault-style merge would do.
DictUpdateKeepFirst(d, e) ==
    [k \in (DOMAIN d) \cup (DOMAIN e) |-> IF k \in DOMAIN d THEN d[k] ELSE e[k]]

\* d.update(e) for two dicts: e's entries are written over d's.
DictUpdate(d, e) ==
    [k \in (DOMAIN d) \cup (DOMAIN e) |-> IF k \in DOMAIN e THEN e[k] ELSE d[k]]

\* combined.update(v) for any JSON value v: a dict is merged, an empty list or
\* empty string is an empty iterable of pairs, anything else raises.
Update(d, v) ==
    CASE v.tag = "object" -> Ok(JObj(DictUpdate(d.fields, v.fields)))
      [] v.tag = "array" ->
            IF v.items = <<>>
            THEN Ok(d)
            ELSE Raise("TypeError",
                       "cannot convert dictionary update sequence element #0 to a sequence")
      [] v.tag = "string" ->
            IF v.s = ""
            THEN Ok(d)
            ELSE Raise("ValueError",
                       "dictionary update sequence element #0 has length 1; 2 is required")
      [] v.tag = "number" -> Raise("TypeError", "'int' object is not iterable")
      [] v.tag = "null" -> Raise("TypeError", "'NoneType' object is not iterable")

\* {"key_value_pairs": {}, "extracted_tests": {}}
DefaultResult == JObj([key_value_pairs |-> EmptyDict, extracted_tests |-> EmptyDict])

----------------------------------------------------------------------------
(* The model's reply text, as a sequence of tokens *)

Prose == [t |-> "prose", v |-> JNull]       \* any text that is not JSON
Ws == [t |-> "ws", v |-> JNull]             \* whitespace
FenceOpen == [t |-> "open", v |-> JNull]    \* ```json\n
FenceClose == [t |-> "close", v |-> JNull]  \* \n```
Json(v) == [t |-> "json", v |-> v]          \* the serialisation of v

\* re.search(r'```json\n([\s\S]*?)\n```', text): the leftmost opening fence
\* that has a closing fence after it, up to the first such closing fence.
FenceStarts(text) ==
    {i \in 1..Len(text) :
        /\ text[i].t = "open"
        /\ \E j \in (i + 1)..Len(text) : text[j].t = "close"}

Min(S) == CHOOSE x \in S : \A y \in S : x <= y

FenceMatch(text) ==
    IF FenceStarts(text) = {}
    THEN [found |-> FALSE, group |-> <<>>]
    ELSE LET i == Min(FenceStarts(text))
             j == Min({k \in (i + 1)..Len(text) : text[k].t = "close"})
         IN [found |-> TRUE, group |-> SubSeq(text, i + 1, j - 1)]

RECURSIVE LStrip(_)
LStrip(s) == IF s # <<>> /\ Head(s).t = "ws" THEN LStrip(Tail(s)) ELSE s

RECURSIVE RStrip(_)
RStrip(s) ==
    IF s # <<>> /\ s[Len(s)].t = "ws" THEN RStrip(SubSeq(s, 1, Len(s) - 1)) ELSE s

\* str.strip()
Strip(s) == RStrip(LStrip(s))

\* json.loads(s): one JSON document, surrounding whitespace allowed; anything
\* else raises JSONDecodeError.
JsonLoads(s) ==
    LET body == Strip(s)
    IN IF Len(body) = 1 /\ body[1].t = "json"
       THEN Ok(body[1].v)
       ELSE Raise("JSONDecodeError", "Expecting value")

\* A reply of the external model: the call raises, or it returns text.
ApiError == [error |-> TRUE, text |-> <<>>]
Text(tokens) == [error |-> FALSE, text |-> tokens]

\* extract_medical_terms_with_gemini_image, given what generate_content did.
ExtractMedicalTerms(reply) ==
    IF reply.error
    THEN DefaultResult
    ELSE LET json_match == FenceMatch(reply.text)
             json_str == IF json_match.found
                         THEN Strip(json_match.group)
                         ELSE Strip(reply.text)
             extracted_data == JsonLoads(json_str)
         IN IF extracted_data.ok THEN extracted_data.val ELSE DefaultResult

----------------------------------------------------------------------------
(* Paths and extensions *)

UPLOAD_FOLDER == <<"U", "p", "l", "o", "a", "d", "s">>

UpperCase == <<"A", "B", "C", "D", "E", "F", "G", "H", "I", "J", "K", "L", "M",
               "N", "O", "P", "Q", "R", "S", "T", "U", "V", "W", "X", "Y", "Z">>
LowerCase == <<"a", "b", "c", "d", "e", "f", "g", "h", "i", "j", "k", "l", "m",
               "n", "o", "p", "q", "r", "s", "t", "u", "v", "w", "x", "y", "z">>

LowerChar(c) ==
    IF \E i \in DOMAIN UpperCase : UpperCase[i] = c
    THEN LowerCase[CHOOSE i \in DOMAIN UpperCase : UpperCase[i] = c]
    ELSE c

\* str.lower()
Lower(s) == [i \in DOMAIN s |-> LowerChar(s[i])]

\* The text of a character sequence, for messages.
RECURSIVE Str(_)
Str(s) == IF s = <<>> THEN "" ELSE Head(s) \o Str(Tail(s))

Max(S) == CHOOSE x \in S : \A y \in S : x >= y

\* str.rfind(c): the last index of c, 0 when absent (1-based).
RFind(p, c) == Max({0} \cup {i \in DOMAIN p : p[i] = c})

\* os.path.splitext(p)[1]: from the last dot of the last component, unless
\* that component has only leading dots before it.
SplitExt(p) ==
    LET sepIndex == RFind(p, "/")
        dotIndex == RFind(p, ".")
    IN IF /\ dotIndex > sepIndex
          /\ \E k \in (sepIndex + 1)..(dotIndex - 1) : p[k] # "."
       THEN SubSeq(p, dotIndex, Len(p))
       ELSE <<>>

\* A join that stores every upload under one stem, keeping only the extension.
FilePathFixedStem(filename) == UPLOAD_FOLDER \o <<"/", "u">> \o SplitExt(filename)

\* os.path.join(app.config['UPLOAD_FOLDER'], filename)
FilePath(filename) ==
    IF filename # <<>> /\ Head(filename) = "/"
    THEN filename
    ELSE UPLOAD_FOLDER \o <<"/">> \o filename

FileExtension(path) == Lower(SplitExt(path))

PdfExtensions == {<<".", "p", "d", "f">>}
ImageExtensions == {<<".", "j", "p", "g">>, <<".", "j", "p", "e", "g">>,
                    <<".", "p", "n", "g">>}

----------------------------------------------------------------------------
(* What a client and the environment can supply *)

\* Client-supplied filenames; the empty one is a file part with no file chosen.
Filenames ==
    { <<>>,
      <<"r", ".", "p", "d", "f">>,
      <<"R", ".", "P", "D", "F">>,
      <<"s", ".", "j", "p", "g">>,
      <<"s", ".", "j", "p", "e", "g">>,
      <<"s", ".", "p", "n", "g">>,
      <<"x", ".", "g", "i", "f">>,
      <<".", "p", "d", "f">> }

\* Filenames of the concurrent specification.
ConcFilenames ==
    { <<"s", ".", "p", "n", "g">>,
      <<"t", ".", "p", "n", "g">>,
      <<"r", ".", "p", "d", "f">>,
      <<"x", ".", "g", "i", "f">> }

Dict1(k, v) == [x \in {k} |-> JStr(v)]
Dict2(k1, v1, k2, v2) == [x \in {k1, k2} |-> IF x = k1 THEN JStr(v1) ELSE JStr(v2)]

ReportA ==
    JObj([key_value_pairs |-> JObj(Dict1("name", "A")),
          extracted_tests |-> JObj(Dict1("hemoglobin", "13.5 g/dL"))])
ReportB ==
    JObj([key_value_pairs |-> JObj(Dict2("name", "B", "age", "40")),
          extracted_tests |-> JObj(Dict2("hemoglobin", "14.0 g/dL", "glucose", "90"))])
ReportC ==
    JObj([key_value_pairs |-> EmptyDict,
          extracted_tests |-> JObj(Dict1("glucose", "95"))])
ReportExtra ==
    JObj([key_value_pairs |-> JObj(Dict1("name", "A")),
          extracted_tests |-> JObj(Dict1("creatinine", "1.1")),
          notes |-> JStr("fasting")])
OnlyTests == JObj([extracted_tests |-> JObj(Dict1("hemoglobin", "13.5 g/dL"))])
OnlyPairs == JObj([key_value_pairs |-> JObj(Dict1("name", "A"))])

\* What one generate_content call can come back with.
Replies ==
    { ApiError,
      Text(<<FenceOpen, Json(ReportA), FenceClose>>),
      Text(<<Prose, Ws, FenceOpen, Json(ReportB), FenceClose, Ws, Prose>>),
      Text(<<Json(ReportC), Ws>>),
      Text(<<Json(DefaultResult)>>),
      Text(<<Json(ReportExtra)>>),
      Text(<<Prose>>),
      Text(<<FenceOpen, Json(ReportA)>>),
      Text(<<Json(OnlyTests)>>),
      Text(<<Json(OnlyPairs)>>),
      Text(<<Json(JArr(<<>>))>>),
      Text(<<Json(JNum(7))>>) }

\* Replies of the concurrent specification.
ConcReplies ==
    { ApiError,
      Text(<<FenceOpen, Json(ReportA), FenceClose>>) }

\* The bytes worker r uploads; 0 stands for no bytes.
Bytes(r) == r
NoBytes == 0

----------------------------------------------------------------------------
(* Responses *)

NoResponse == [status |-> 0, kind |-> "none", error |-> "", data |-> JNull]
\* jsonify({"error": msg}), status
ErrorResponse(status, msg) ==
    [status |-> status, kind |-> "error", error |-> msg, data |-> JNull]
\* jsonify({"data": v})
DataResponse(v) == [status |-> 200, kind |-> "data", error |-> "", data |-> v]
\* The framework's answer to an exception that leaves the view function.
UnhandledResponse == [status |-> 500, kind |-> "unhandled", error |-> "", data |-> JNull]

NoFilePartMsg == "No file part in the request"
NoFileSelectedMsg == "No file selected"
ExtractFailedMsg ==
    "Failed to extract data from the file. Ensure the file contains readable medical report data."
UnsupportedMsg(file_extension) ==
    "Unsupported file type: " \o Str(file_extension)
        \o ". Please upload a PDF, JPEG, or PNG file."
ProcessingFailedMsg(exc) == "Processing failed: " \o exc.msg

----------------------------------------------------------------------------
(* upload_file, after the dispatcher has returned *)

\* The test of line 128 with only its first clause.
EmptyResultCheckNoResultsOnly(results) == Ok(results = <<>>)

\* not results or (len(results) == 1 and not kv and not tests), left to
\* right with short-circuit; a subscript may raise.
EmptyResultCheck(results) ==
    IF results = <<>>
    THEN Ok(TRUE)
    ELSE IF Len(results) # 1
    THEN Ok(FALSE)
    ELSE LET kv == GetItem(results[1].data, "key_value_pairs")
         IN IF ~kv.ok
            THEN kv
            ELSE IF ~Falsy(kv.val)
            THEN Ok(FALSE)
            ELSE LET tests == GetItem(results[1].data, "extracted_tests")
                 IN IF ~tests.ok THEN tests ELSE Ok(Falsy(tests.val))

\* The loop of lines 136-139 from page i on, then the dict of lines 140-143.
RECURSIVE MergeFrom(_, _, _, _)
MergeFrom(results, i, combined_key_value_pairs, combined_extracted_tests) ==
    IF i > Len(results)
    THEN Ok(JObj([key_value_pairs |-> combined_key_value_pairs,
                  extracted_tests |-> combined_extracted_tests]))
    ELSE LET page_data == results[i].data
             kv == GetItem(page_data, "key_value_pairs")
         IN IF ~kv.ok
            THEN kv
            ELSE LET ckv == Update(combined_key_value_pairs, kv.val)
                 IN IF ~ckv.ok
                    THEN ckv
                    ELSE LET tests == GetItem(page_data, "extracted_tests")
                         IN IF ~tests.ok
                            THEN tests
                            ELSE LET cet == Update(combined_extracted_tests, tests.val)
                                 IN IF ~cet.ok
                                    THEN cet
                                    ELSE MergeFrom(results, i + 1, ckv.val, cet.val)

\* The merge applied whatever the number of pages.
FinalOutputAlwaysMerge(results) == MergeFrom(results, 1, EmptyDict, EmptyDict)

\* Lines 131-143.
FinalOutput(results) ==
    IF Len(results) = 1
    THEN Ok(results[1].data)
    ELSE MergeFrom(results, 1, EmptyDict, EmptyDict)

\* Lines 128-147: the response, and the exception the except clause caught.
UploadResponse(results) ==
    LET empty == EmptyResultCheck(results)
    IN IF ~empty.ok
       THEN [response |-> ErrorResponse(500, ProcessingFailedMsg(empty.exc)),
             exc |-> empty.exc]
       ELSE IF empty.val
       THEN [response |-> ErrorResponse(500, ExtractFailedMsg), exc |-> NoExc]
       ELSE LET final_output == FinalOutput(results)
            IN IF ~final_output.ok
               THEN [response |-> ErrorResponse(500, ProcessingFailedMsg(final_output.exc)),
                     exc |-> final_output.exc]
               ELSE [response |-> DataResponse(final_output.val), exc |-> NoExc]

----------------------------------------------------------------------------
(* The dispatcher's helpers *)

\* convert_pdf_to_images: the pages of the file read, or [] when convert_from_path raises.
ConvertPdfToImages(bytes, outcome) ==
    IF outcome.error
    THEN <<>>
    ELSE [i \in 1..outcome.pages |-> [bytes |-> bytes, page |-> i]]

\* A dispatcher that returns its empty list when there are no images.
PdfFallbackNone == <<>>

\* Line 93.
PdfFallback == <<[page |-> 1, data |-> DefaultResult]>>

\* A 0-based page number.
AppendPageZeroBased(all_results, idx, result) ==
    Append(all_results, [page |-> idx, data |-> result])

\* Line 101 (and 106 with idx = 0); idx is enumerate's 0-based index.
AppendPage(all_results, idx, result) ==
    Append(all_results, [page |-> idx + 1, data |-> result])

\* The checks of lines 114-119 with the filename check left out.
ReceiveCheckNoNameCheck(files) == IF ~files.hasFile THEN "nofile" ELSE "ok"

\* Lines 114-119.
ReceiveCheck(files) ==
    IF ~files.hasFile
    THEN "nofile"
    ELSE IF files.filename = <<>> THEN "noname" ELSE "ok"

----------------------------------------------------------------------------
(* State *)

VARIABLES
    pc,          \* where each worker's request is: idle, persist, dispatch, pages, respond, done
    request,     \* request.files of each worker's request
    disk,        \* the files of the filesystem: path -> bytes
    saved,       \* whether file.save has written the request's file
    readBytes,   \* the bytes the dispatcher read back from the request's path
    rasterized,  \* "no", or how convert_from_path ended: "ok", "error"
    images,      \* the list convert_pdf_to_images returned
    idx,         \* enumerate's index into images
    all_results, \* the dispatcher's list of PageResults
    gemini,      \* the generate_content calls made for the request, with their replies
    response,    \* the HTTP response
    raised       \* the exception raised while handling the request, if any

vars == <<pc, request, disk, saved, readBytes, rasterized, images, idx,
          all_results, gemini, response, raised>>

Init ==
    /\ pc = [r \in Workers |-> "idle"]
    /\ request = [r \in Workers |-> [hasFile |-> FALSE, filename |-> <<>>]]
    /\ disk = <<>>
    /\ saved = [r \in Workers |-> FALSE]
    /\ readBytes = [r \in Workers |-> NoBytes]
    /\ rasterized = [r \in Workers |-> "no"]
    /\ images = [r \in Workers |-> <<>>]
    /\ idx = [r \in Workers |-> 0]
    /\ all_results = [r \in Workers |-> <<>>]
    /\ gemini = [r \in Workers |-> <<>>]
    /\ response = [r \in Workers |-> NoResponse]
    /\ raised = [r \in Workers |-> NoExc]

\* file_path of worker r's request.
PathOf(r) == FilePath(request[r].filename)

\* The bytes at a path (a path is only read after it was written).
ReadFile(path) == IF path \in DOMAIN disk THEN disk[path] ELSE NoBytes

WriteFile(path, bytes) ==
    [p \in (DOMAIN disk) \cup {path} |-> IF p = path THEN bytes ELSE disk[p]]

\* One generate_content call: the image sent, the MIME type asserted, the reply.
Call(image_data, reply) ==
    [data |-> image_data, mime_type |-> "image/jpeg", reply |-> reply]

----------------------------------------------------------------------------
(* Steps of upload_file *)

\* Lines 114-119: the request arrives and its file part is checked.
Receive(r, names) ==
    /\ pc[r] = "idle"
    /\ \E files \in {[hasFile |-> FALSE, filename |-> <<>>]}
                    \cup {[hasFile |-> TRUE, filename |-> f] : f \in names} :
        /\ request' = [request EXCEPT ![r] = files]
        /\ LET check == ReceiveCheck(files)
           IN IF check = "nofile"
              THEN /\ response' = [response EXCEPT ![r] = ErrorResponse(400, NoFilePartMsg)]
                   /\ pc' = [pc EXCEPT ![r] = "done"]
              ELSE IF check = "noname"
              THEN /\ response' = [response EXCEPT ![r] = ErrorResponse(400, NoFileSelectedMsg)]
                   /\ pc' = [pc EXCEPT ![r] = "done"]
              ELSE /\ response' = response
                   /\ pc' = [pc EXCEPT ![r] = "persist"]
    /\ UNCHANGED <<disk, saved, readBytes, rasterized, images, idx, all_results,
                   gemini, raised>>

\* Lines 121-124: file.save(file_path), outside the try block.  A failing
\* save (unwritable directory) leaves the view function as an exception.
Persist(r) ==
    /\ pc[r] = "persist"
    /\ \E ok \in BOOLEAN :
        IF ok
        THEN /\ disk' = WriteFile(PathOf(r), Bytes(r))
             /\ saved' = [saved EXCEPT ![r] = TRUE]
             /\ pc' = [pc EXCEPT ![r] = "dispatch"]
             /\ UNCHANGED <<response, raised>>
        ELSE /\ raised' = [raised EXCEPT ![r] =
                              [type |-> "OSError", msg |-> "Permission denied"]]
             /\ response' = [response EXCEPT ![r] = UnhandledResponse]
             /\ pc' = [pc EXCEPT ![r] = "done"]
             /\ UNCHANGED <<disk, saved>>
    /\ UNCHANGED <<request, readBytes, rasterized, images, idx, all_results, gemini>>

\* Lines 86-93: the .pdf branch up to the loop: rasterize, fall back on no images.
DispatchPdf(r, maxPages) ==
    /\ pc[r] = "dispatch"
    /\ FileExtension(PathOf(r)) \in PdfExtensions
    /\ \E outcome \in {[error |-> TRUE, pages |-> 0]}
                      \cup {[error |-> FALSE, pages |-> n] : n \in 0..maxPages} :
        LET bytes == ReadFile(PathOf(r))
            imgs == ConvertPdfToImages(bytes, outcome)
        IN /\ readBytes' = [readBytes EXCEPT ![r] = bytes]
           /\ rasterized' = [rasterized EXCEPT ![r] = IF outcome.error THEN "error" ELSE "ok"]
           /\ images' = [images EXCEPT ![r] = imgs]
           /\ IF imgs = <<>>
              THEN /\ all_results' = [all_results EXCEPT ![r] = PdfFallback]
                   /\ pc' = [pc EXCEPT ![r] = "respond"]
              ELSE /\ all_results' = all_results
                   /\ pc' = [pc EXCEPT ![r] = "pages"]
    /\ UNCHANGED <<request, disk, saved, idx, gemini, response, raised>>

\* Lines 95-101: one iteration of the loop over the pages.
ProcessPage(r, replies) ==
    /\ pc[r] = "pages"
    /\ \E reply \in replies :
        LET image == images[r][idx[r] + 1]
            result == ExtractMedicalTerms(reply)
        IN /\ gemini' = [gemini EXCEPT ![r] = Append(@, Call(image, reply))]
           /\ all_results' = [all_results EXCEPT ![r] = AppendPage(@, idx[r], result)]
    /\ idx' = [idx EXCEPT ![r] = @ + 1]
    /\ pc' = [pc EXCEPT ![r] = IF idx[r] + 1 = Len(images[r]) THEN "respond" ELSE "pages"]
    /\ UNCHANGED <<request, disk, saved, readBytes, rasterized, images, response, raised>>

\* Lines 102-106: the image branch: read the file, one model call.
DispatchImage(r, replies) ==
    /\ pc[r] = "dispatch"
    /\ FileExtension(PathOf(r)) \in ImageExtensions
    /\ \E reply \in replies :
        LET image_data == [bytes |-> ReadFile(PathOf(r)), page |-> 0]
            result == ExtractMedicalTerms(reply)
        IN /\ readBytes' = [readBytes EXCEPT ![r] = image_data.bytes]
           /\ gemini' = [gemini EXCEPT ![r] = Append(@, Call(image_data, reply))]
           /\ all_results' = [all_results EXCEPT ![r] =
                                 Append(@, [page |-> 1, data |-> result])]
    /\ pc' = [pc EXCEPT ![r] = "respond"]
    /\ UNCHANGED <<request, disk, saved, rasterized, images, idx, response, raised>>

\* Lines 107-108 and 146-147: any other extension raises ValueError, which
\* the except clause of upload_file turns into its 500 response.
DispatchUnsupported(r) ==
    /\ pc[r] = "dispatch"
    /\ FileExtension(PathOf(r)) \notin PdfExtensions \cup ImageExtensions
    /\ LET exc == [type |-> "ValueError",
                   msg |-> UnsupportedMsg(FileExtension(PathOf(r)))]
       IN /\ raised' = [raised EXCEPT ![r] = exc]
          /\ response' = [response EXCEPT ![r] =
                             ErrorResponse(500, ProcessingFailedMsg(exc))]
    /\ pc' = [pc EXCEPT ![r] = "done"]
    /\ UNCHANGED <<request, disk, saved, readBytes, rasterized, images, idx,
                   all_results, gemini>>

\* Lines 128-147: the empty-result check, the merge and the response.
Respond(r) ==
    /\ pc[r] = "respond"
    /\ LET out == UploadResponse(all_results[r])
       IN /\ response' = [response EXCEPT ![r] = out.response]
          /\ raised' = [raised EXCEPT ![r] = out.exc]
    /\ pc' = [pc EXCEPT ![r] = "done"]
    /\ UNCHANGED <<request, disk, saved, readBytes, rasterized, images, idx,
                   all_results, gemini>>

----------------------------------------------------------------------------
(* Specifications *)

\* One request, with every filename and every reply.
Next ==
    \E r \in {1} :
        \/ Receive(r, Filenames)
        \/ Persist(r)
        \/ DispatchPdf(r, MaxPages)
        \/ ProcessPage(r, Replies)
        \/ DispatchImage(r, Replies)
        \/ DispatchUnsupported(r)
        \/ Respond(r)

Spec == Init /\ [][Next]_vars

\* One request per worker, the workers running concurrently.
ConcNext ==
    \E r \in Workers :
        \/ Receive(r, ConcFilenames)
        \/ Persist(r)
        \/ DispatchPdf(r, ConcPages)
        \/ ProcessPage(r, ConcReplies)
        \/ DispatchImage(r, ConcReplies)
        \/ DispatchUnsupported(r)
        \/ Respond(r)

ConcSpec == Init /\ [][ConcNext]_vars

----------------------------------------------------------------------------
(* Vocabulary of the properties *)

MappingNames == {"key_value_pairs", "extracted_tests"}

\* d is a mapping that holds a mapping under m.
HasMapping(d, m) ==
    /\ d.tag = "object"
    /\ m \in DOMAIN d.fields
    /\ d.fields[m].tag = "object"

\* A well-formed ExtractionResult: both mappings are there.
WellFormed(d) == \A m \in MappingNames : HasMapping(d, m)

\* The keys of the mapping m of d (none when d has no such mapping).
KeysOf(d, m) == IF HasMapping(d, m) THEN DOMAIN d.fields[m].fields ELSE {}

\* An ExtractionResult whose two mappings are both empty.
BothEmpty(d) == WellFormed(d) /\ \A m \in MappingNames : KeysOf(d, m) = {}

\* The model call failed, or its reply does not parse as JSON.
CallFails(reply) ==
    \/ reply.error
    \/ LET m == FenceMatch(reply.text)
       IN ~JsonLoads(IF m.found THEN m.group ELSE reply.text).ok

ExtOf(r) == FileExtension(PathOf(r))
Supported(r) == ExtOf(r) \in PdfExtensions \cup ImageExtensions
Done(r) == pc[r] = "done"
NoProcessing(r) ==
    /\ rasterized[r] = "no"
    /\ gemini[r] = <<>>
    /\ readBytes[r] = NoBytes

----------------------------------------------------------------------------
(* Properties *)

\* C1: an upload whose lowercased extension is not .pdf, .jpg, .jpeg or .png
\* is answered 400 with a message naming the extension and the allowed
\* types, and no rasterization or model call is made for it.
C1_UnsupportedAnswered400 ==
    \A r \in Workers :
        (Done(r) /\ saved[r] /\ ~Supported(r)) =>
            /\ response[r].status = 400
            /\ response[r].error = UnsupportedMsg(ExtOf(r))
            /\ rasterized[r] = "no"
            /\ gemini[r] = <<>>

\* C2: every value extract_medical_terms_with_gemini_image returns is a
\* well-formed ExtractionResult, whatever the model call did, and it is the
\* default empty result whenever the call or the parse failed.
C2_ExtractionAlwaysWellFormed ==
    \A r \in Workers : \A i \in 1..Len(gemini[r]) :
        /\ WellFormed(all_results[r][i].data)
        /\ CallFails(gemini[r][i].reply) => all_results[r][i].data = DefaultResult

\* C3 as stated: whenever every PageResult is empty the response is the 500
\* extraction failure, for any number of pages, and no 200 response carries
\* a data object whose two mappings are both empty.
C3_AllEmptyAnswered500 ==
    \A r \in Workers :
        /\ (/\ Done(r)
            /\ all_results[r] # <<>>
            /\ \A i \in 1..Len(all_results[r]) : BothEmpty(all_results[r][i].data))
           => response[r] = ErrorResponse(500, ExtractFailedMsg)
        /\ response[r].status = 200 => ~BothEmpty(response[r].data)

\* C3 amended: exactly one PageResult whose two mappings are empty is answered
\* with the 500 extraction failure; two or more PageResults that are all
\* empty are answered 200 with both mappings empty, and a 200 response with
\* both mappings empty comes from two or more PageResults only.
C3_SingleEmptyAnswered500 ==
    \A r \in Workers :
        /\ (/\ Done(r)
            /\ Len(all_results[r]) = 1
            /\ BothEmpty(all_results[r][1].data))
           => response[r] = ErrorResponse(500, ExtractFailedMsg)
        /\ (/\ Done(r)
            /\ Len(all_results[r]) >= 2
            /\ \A i \in 1..Len(all_results[r]) : BothEmpty(all_results[r][i].data))
           => response[r] = DataResponse(DefaultResult)
        /\ (response[r].status = 200 /\ BothEmpty(response[r].data))
           => Len(all_results[r]) >= 2

\* A single image whose model call yielded nothing was answered with the 500
\* extraction failure.
C3_Witness ==
    \E r \in Workers :
        /\ Done(r)
        /\ Len(all_results[r]) = 1
        /\ Len(gemini[r]) = 1
        /\ BothEmpty(all_results[r][1].data)
        /\ response[r] = ErrorResponse(500, ExtractFailedMsg)

\* The highest-numbered page of results that has key k in its mapping m.
LastPageWith(results, m, k) ==
    Max({i \in 1..Len(results) : k \in KeysOf(results[i].data, m)})

\* C4: with two or more PageResults, each combined mapping of the 200
\* response has the union of the pages' keys, and every key holds the value
\* of the highest-numbered page that has it.
C4_MergeLastPageWins ==
    \A r \in Workers :
        (Done(r) /\ response[r].status = 200 /\ Len(all_results[r]) >= 2) =>
            \A m \in MappingNames :
                /\ HasMapping(response[r].data, m)
                /\ KeysOf(response[r].data, m)
                     = UNION {KeysOf(all_results[r][i].data, m) :
                                 i \in 1..Len(all_results[r])}
                /\ \A k \in KeysOf(response[r].data, m) :
                     response[r].data.fields[m].fields[k]
                       = all_results[r][LastPageWith(all_results[r], m, k)]
                             .data.fields[m].fields[k]

\* A merged 200 response where two pages disagree on a key and another key
\* is on one page only.
C4_Witness ==
    \E r \in Workers :
        /\ Done(r)
        /\ response[r].status = 200
        /\ Len(all_results[r]) >= 2
        /\ \E i, j \in 1..Len(all_results[r]) :
            /\ i < j
            /\ "hemoglobin" \in KeysOf(all_results[r][i].data, "extracted_tests")
                                 \cap KeysOf(all_results[r][j].data, "extracted_tests")
            /\ all_results[r][i].data.fields["extracted_tests"].fields["hemoglobin"]
                 # all_results[r][j].data.fields["extracted_tests"].fields["hemoglobin"]
            /\ "glucose" \in KeysOf(all_results[r][j].data, "extracted_tests")
                              \ KeysOf(all_results[r][i].data, "extracted_tests")

\* C5: a .jpg, .jpeg or .png upload answered 200 had exactly one PageResult,
\* for page 1, from one model call, and the response's data is that call's
\* parsed result unchanged.
C5_ImageDataIsParsedResult ==
    \A r \in Workers :
        (Done(r) /\ response[r].status = 200 /\ ExtOf(r) \in ImageExtensions) =>
            /\ Len(all_results[r]) = 1
            /\ all_results[r][1].page = 1
            /\ Len(gemini[r]) = 1
            /\ all_results[r][1].data = ExtractMedicalTerms(gemini[r][1].reply)
            /\ response[r] = DataResponse(ExtractMedicalTerms(gemini[r][1].reply))

\* An image answered 200 with a parsed result that holds a third key.
C5_Witness ==
    \E r \in Workers :
        /\ Done(r)
        /\ ExtOf(r) \in ImageExtensions
        /\ response[r] = DataResponse(ReportExtra)

\* C6: a request without a file part is answered 400 'No file part in the
\* request', one with an empty filename 400 'No file selected'; both stop
\* there: nothing is saved, rasterized, read or sent to the model.
C6_ReceiveErrors ==
    \A r \in Workers :
        pc[r] # "idle" =>
            /\ ~request[r].hasFile =>
                /\ Done(r)
                /\ response[r] = ErrorResponse(400, NoFilePartMsg)
                /\ ~saved[r]
                /\ NoProcessing(r)
            /\ (request[r].hasFile /\ request[r].filename = <<>>) =>
                /\ Done(r)
                /\ response[r] = ErrorResponse(400, NoFileSelectedMsg)
                /\ ~saved[r]
                /\ NoProcessing(r)

\* A request with a file part and an empty filename was answered.
C6_Witness ==
    \E r \in Workers :
        /\ Done(r)
        /\ request[r].hasFile
        /\ request[r].filename = <<>>
        /\ response[r].status = 400
        /\ disk = <<>>

\* C7: every exception raised while persisting, dispatching, checking or
\* combining is answered 500 'Processing failed: <message>'.
C7_ExceptionsAnsweredProcessingFailed ==
    \A r \in Workers :
        raised[r] # NoExc =>
            response[r] = ErrorResponse(500, ProcessingFailedMsg(raised[r]))

\* C8: a .pdf that rasterizes to no images (a conversion error included)
\* gives exactly the PageResult {page 1, default}, with no model call, and is
\* answered with the 500 extraction failure.
C8_ZeroImagesFallback ==
    \A r \in Workers :
        (rasterized[r] # "no" /\ images[r] = <<>>) =>
            /\ pc[r] \in {"respond", "done"}
            /\ all_results[r] = <<[page |-> 1, data |-> DefaultResult]>>
            /\ gemini[r] = <<>>
            /\ Done(r) => response[r] = ErrorResponse(500, ExtractFailedMsg)

\* A PDF whose conversion raised was answered.
C8_Witness ==
    \E r \in Workers :
        /\ Done(r)
        /\ rasterized[r] = "error"
        /\ response[r].status = 500

\* C9: for a PDF of N >= 1 pages the model calls made so far are for pages
\* 1, 2, ... in that order, one each, with one PageResult each, numbered
\* alike; a failed call or parse gives the default result for its page; the
\* loop ends only after page N.
C9_OneCallPerPageInOrder ==
    \A r \in Workers :
        (rasterized[r] # "no" /\ Len(images[r]) >= 1) =>
            /\ Len(gemini[r]) = idx[r]
            /\ Len(all_results[r]) = idx[r]
            /\ idx[r] <= Len(images[r])
            /\ \A i \in 1..Len(gemini[r]) :
                /\ gemini[r][i].data = images[r][i]
                /\ gemini[r][i].data.page = i
            /\ \A i \in 1..Len(all_results[r]) :
                /\ all_results[r][i].page = i
                /\ i <= Len(gemini[r]) /\ CallFails(gemini[r][i].reply)
                     => all_results[r][i].data = DefaultResult
            /\ pc[r] \in {"pages", "respond", "done"}
            /\ pc[r] = "pages" <=> idx[r] < Len(images[r])

\* A PDF of several pages was processed to its last page after its first
\* page's call failed.
C9_Witness ==
    \E r \in Workers :
        /\ Done(r)
        /\ Len(images[r]) >= 2
        /\ Len(all_results[r]) = Len(images[r])
        /\ CallFails(gemini[r][1].reply)
        /\ ~CallFails(gemini[r][Len(images[r])].reply)
        /\ all_results[r][1].data = DefaultResult
        /\ all_results[r][Len(images[r])].data # DefaultResult

====
